---- MODULE Spec2Model ----
(***************************************************************************)
(* facefusion/face_analyser.py as a state machine.                         *)
(*                                                                         *)
(* Shared state: the module globals FACE_ANALYSER, THREAD_LOCK,            *)
(* THREAD_SEMAPHORE and the frame cache of facefusion.face_cache.          *)
(* Each thread makes one call; th[t] holds the call's locals and its        *)
(* position (pc).  A step is one access to shared state together with the  *)
(* thread-local code that follows it.  The specifications differ in the    *)
(* calls the threads make.                                                 *)
(***************************************************************************)
EXTENDS Integers, Sequences, FiniteSets, TLC

\* ------------------------------------------------------------------ bounds
NumThreads == 2
MaxResets == 1
MaxFailures == 1
MaxFaces == 3
MaxPosition == 2

Threads == 1 .. NumThreads

\* ------------------------------------------------------------ the handle
\* A handle is the dict of line 36-40; an object is named by the number of
\* the construction that made it, 0 names no object.  None is Python's None.
None == [face_detector |-> 0, face_recognition |-> 0]

IsNone(h) == h = None

Handle(d, r) == [face_detector |-> d, face_recognition |-> r]

\* ---------------------------------------------------------- THREAD_LOCK
\* THREAD_LOCK holds the thread that owns it, Unlocked when free.
Unlocked == 0

CanLockRacy(l) == TRUE

\* `with THREAD_LOCK:` blocks until the lock is free.
CanLock(l) == l = Unlocked

ExitLockLeak(l, raised) == IF raised THEN l ELSE Unlocked

ExitLockKept(l, raised) == IF raised THEN Unlocked ELSE l

\* Leaving the `with THREAD_LOCK:` block, by its end or by an exception,
\* releases the lock.
ExitLock(l, raised) == Unlocked

\* ------------------------------------------------------ THREAD_SEMAPHORE
\* threading.Semaphore() starts with the value 1.
SemaphoreValue == 1

CanAcquireOff(s) == s >= 0

\* `with THREAD_SEMAPHORE:` blocks while the counter is zero.
CanAcquire(s) == s > 0

ExitSemaphoreLeak(s, raised) == IF raised THEN s ELSE s + 1

ExitSemaphoreKept(s, raised) == IF raised THEN s + 1 ELSE s

\* Leaving the `with THREAD_SEMAPHORE:` block, by its end or by an
\* exception, gives the slot back.
ExitSemaphore(s, raised) == s + 1

\* -------------------------------------------------------------- frames
\* "blank" shows no face, "solo" shows one; "gray" is a 2-D array.
Frames == {"blank", "solo", "gray"}

\* "pair" is a larger frame that shows two faces.
AllFrames == Frames \cup {"pair"}

\* frame.shape
Shape(f) == IF f = "gray" THEN <<4, 4>> ELSE IF f = "pair" THEN <<6, 8, 3>> ELSE <<4, 4, 3>>

NumFaces(f) == CASE f = "solo" -> 1 [] f = "pair" -> 2 [] OTHER -> 0

\* `height, width, _ = frame.shape` raises ValueError unless there are three.
UnpacksShape(f) == Len(Shape(f)) = 3

\* What face_detector.detect hands back as `detections`: the rows of the
\* frame's faces, or, when there is none, either None (cv2 converts an empty
\* Mat to None) or an empty array.
NoDetections == {"None", "empty"}

Detect(f, rep) == [isNone |-> NumFaces(f) = 0 /\ rep = "None", rows |-> [i \in 1 .. NumFaces(f) |-> i]]

Undetected == [isNone |-> FALSE, rows |-> <<0>>]

\* detection[0:4] of row i of frame f: x1, y1, x2, y2.
Bbox(f, i) == IF f = "pair" THEN (IF i = 1 THEN <<1, 1, 5, 5>> ELSE <<0, 2, 2, 4>>) ELSE <<0, 0, 4, 4>>

\* Embeddings are vectors of length 5 in fixed point, so that 1.0 is 25 in
\* a dot product of two of them.
One == 25

\* embedding / numpy.linalg.norm(embedding) for row i of frame f
NormedEmbedding(f, i) == IF f = "pair" THEN (IF i = 1 THEN <<3, 4>> ELSE <<0, 5>>) ELSE <<5, 0>>

\* Face(...) of line 74-82 for row i of frame f.
Face(f, i) == [frame |-> f, row |-> i, bbox |-> Bbox(f, i), normed_embedding |-> NormedEmbedding(f, i), gender |-> 0, age |-> 0]

\* --------------------------------------------------------- the frame cache
\* facefusion.face_cache: get(frame) -> optional<sequence<Face>>,
\* put(frame, sequence<Face>).
Absent == [some |-> FALSE, val |-> <<>>]

get_faces_cache(cache, f) == cache[f]

set_faces_cache(cache, f, faces) == [cache EXCEPT ![f] = [some |-> TRUE, val |-> faces]]

\* `if faces_cache:` is Python truth: None and the empty list are false.
Truthy(c) == c.some /\ c.val # <<>>

\* ------------------------------------------------------------- exceptions
CaughtAttributeOnly(cls) == cls = "AttributeError"

\* `except (AttributeError, ValueError):` of get_many_faces
Caught(cls) == cls \in {"AttributeError", "ValueError"}

\* --------------------------------------------------------- the query layer
\* A selector of facefusion.globals that is not set.
Unset == "None"

\* facefusion.globals.face_analyser_direction, _age and _gender with
\* nothing configured.
Unconfigured == [face_analyser_direction |-> Unset, face_analyser_age |-> Unset, face_analyser_gender |-> Unset]

\* The key functions of line 143-153.
X1(face) == face.bbox[1]

Y1(face) == face.bbox[2]

Area(face) == (face.bbox[3] - face.bbox[1]) * (face.bbox[4] - face.bbox[2])

PrecedesMirrored(keys, j, i, reverse) == IF reverse THEN keys[j] > keys[i] \/ (keys[j] = keys[i] /\ j > i) ELSE keys[j] < keys[i] \/ (keys[j] = keys[i] /\ j < i)

\* Whether sorted() puts item j before item i: by the key, descending when
\* reverse = True; items of equal key keep their order either way.
Precedes(keys, j, i, reverse) == IF reverse THEN keys[j] > keys[i] \/ (keys[j] = keys[i] /\ j < i) ELSE keys[j] < keys[i] \/ (keys[j] = keys[i] /\ j < i)

\* The place sorted() gives item i.
Place(keys, i, reverse) == 1 + Cardinality({j \in DOMAIN keys : Precedes(keys, j, i, reverse)})

\* sorted(faces, key = ..., reverse = ...), keys[i] being the key of faces[i]
sorted(faces, keys, reverse) == [p \in 1 .. Len(faces) |-> faces[CHOOSE i \in 1 .. Len(faces) : Place(keys, i, reverse) = p]]

\* line 141-154
sort_by_direction(faces, direction) ==
  CASE direction = "left-right" -> sorted(faces, [i \in 1 .. Len(faces) |-> X1(faces[i])], FALSE)
    [] direction = "right-left" -> sorted(faces, [i \in 1 .. Len(faces) |-> X1(faces[i])], TRUE)
    [] direction = "top-bottom" -> sorted(faces, [i \in 1 .. Len(faces) |-> Y1(faces[i])], FALSE)
    [] direction = "bottom-top" -> sorted(faces, [i \in 1 .. Len(faces) |-> Y1(faces[i])], TRUE)
    [] direction = "small-large" -> sorted(faces, [i \in 1 .. Len(faces) |-> Area(faces[i])], FALSE)
    [] direction = "large-small" -> sorted(faces, [i \in 1 .. Len(faces) |-> Area(faces[i])], TRUE)
    [] OTHER -> faces

KeepsAgeGap(face, age) ==
  IF face.age < 13 /\ age = "child" THEN TRUE
  ELSE IF face.age < 19 /\ age = "teen" THEN TRUE
  ELSE IF face.age < 59 /\ age = "adult" THEN TRUE
  ELSE IF face.age > 59 /\ age = "senior" THEN TRUE
  ELSE FALSE

\* The if/elif chain of line 160-167: whether the face is appended.
KeepsAge(face, age) ==
  IF face.age < 13 /\ age = "child" THEN TRUE
  ELSE IF face.age < 19 /\ age = "teen" THEN TRUE
  ELSE IF face.age < 60 /\ age = "adult" THEN TRUE
  ELSE IF face.age > 59 /\ age = "senior" THEN TRUE
  ELSE FALSE

\* line 157-168
filter_by_age(faces, age) == SelectSeq(faces, LAMBDA face : KeepsAge(face, age))

\* The two ifs of line 174-177: no face meets both.
KeepsGender(face, gender) == (face.gender = 1 /\ gender = "male") \/ (face.gender = 0 /\ gender = "female")

\* line 171-178
filter_by_gender(faces, gender) == SelectSeq(faces, LAMBDA face : KeepsGender(face, gender))

\* numpy.dot of two embeddings
Dot(a, b) == a[1] * b[1] + a[2] * b[2]

\* A reference that is no Face (None) has no normed_embedding.
NoReference == [frame |-> "none"]

HasEmbedding(face) == "normed_embedding" \in DOMAIN face

\* line 135: 1 - numpy.dot(face.normed_embedding, reference_face.normed_embedding)
current_face_distance(face, reference_face) == One - Dot(face.normed_embedding, reference_face.normed_embedding)

SimilarInclusive(face, reference_face, face_distance) == HasEmbedding(face) /\ HasEmbedding(reference_face) /\ current_face_distance(face, reference_face) <= face_distance

\* line 134-136: whether the face is appended.
Similar(face, reference_face, face_distance) == HasEmbedding(face) /\ HasEmbedding(reference_face) /\ current_face_distance(face, reference_face) < face_distance

\* line 131-138 on the list get_many_faces returned
find_similar_faces(many_faces, reference_face, face_distance) == SelectSeq(many_faces, LAMBDA face : Similar(face, reference_face, face_distance))

\* line 118-124: the direction sort, the age filter and the gender filter,
\* each when its selector is set.
Selected(faces, globals) ==
  LET sorted_faces == IF globals.face_analyser_direction # Unset THEN sort_by_direction(faces, globals.face_analyser_direction) ELSE faces
      aged == IF globals.face_analyser_age # Unset THEN filter_by_age(sorted_faces, globals.face_analyser_age) ELSE sorted_faces
      gendered == IF globals.face_analyser_gender # Unset THEN filter_by_gender(aged, globals.face_analyser_gender) ELSE aged
  IN gendered

StoredSorted(cache, f, faces) == set_faces_cache(cache, f, sort_by_direction(faces, "left-right"))

StoredUnlessEmpty(cache, f, faces) == IF faces = <<>> THEN cache ELSE set_faces_cache(cache, f, faces)

\* line 117
Stored(cache, f, faces) == set_faces_cache(cache, f, faces)

\* ------------------------------------------------------------ operations
\* The operations that call get_many_faces(frame) first.
ManyOps == {"get_many_faces", "get_one_face", "find_similar_faces"}

FrameOps == {"extract_faces", "get_many_faces", "get_one_face"}

VARIABLES FACE_ANALYSER, THREAD_LOCK, THREAD_SEMAPHORE, FACES_CACHE, input_size, th, resets, cleared_at

vars == <<FACE_ANALYSER, THREAD_LOCK, THREAD_SEMAPHORE, FACES_CACHE, input_size, th, resets, cleared_at>>

\* The detectors made so far: detector d was configured last with
\* input_size[d].
created == Len(input_size)

\* A thread that has made no call, and the locals of a call as it starts.
Idle == [pc |-> "idle", op |-> "none", frame |-> "blank", position |-> 0, ra |-> "top", analyser |-> None, local |-> None, face_detector |-> 0, face_recognition |-> 0, detections |-> Undetected, faces_cache |-> Absent, faces |-> <<>>, k |-> 0, one |-> Absent, outcome |-> "none", exc |-> "none", epoch |-> 0, again |-> FALSE, globals |-> Unconfigured, reference_face |-> NoReference, face_distance |-> 0, direction |-> Unset, age |-> Unset, result |-> <<>>]

Init ==
  /\ FACE_ANALYSER = None
  /\ THREAD_LOCK = Unlocked
  /\ THREAD_SEMAPHORE = SemaphoreValue
  /\ FACES_CACHE = [f \in AllFrames |-> Absent]
  /\ input_size = <<>>
  /\ th = [t \in Threads |-> Idle]
  /\ resets = 0
  /\ cleared_at = 0

\* ------------------------------------------------- returns and exceptions
\* many_faces[position] raises IndexError unless -len <= position < len.
InRange(many_faces, position) == - Len(many_faces) <= position /\ position < Len(many_faces)

\* many_faces[position] for a position in range; a negative one counts from
\* the end.
Item(many_faces, position) == IF position >= 0 THEN many_faces[position + 1] ELSE many_faces[Len(many_faces) + position + 1]

OneOfUnguarded(many_faces, position) == IF many_faces = <<>> \/ ~InRange(many_faces, position) THEN Absent ELSE [some |-> TRUE, val |-> <<Item(many_faces, position)>>]

\* get_one_face, line 102-107, on the list get_many_faces returned.
OneOf(many_faces, position) == IF many_faces = <<>> THEN Absent ELSE IF InRange(many_faces, position) THEN [some |-> TRUE, val |-> <<Item(many_faces, position)>>] ELSE [some |-> TRUE, val |-> <<Item(many_faces, -1)>>]

\* get_many_faces returns `faces` (line 124 or 126) to its caller, which
\* is the caller of the thread's call or line 101 of get_one_face.
ReturnMany(r, faces) == [r EXCEPT !.pc = "done", !.outcome = "returned", !.faces = faces, !.one = IF r.op = "get_one_face" THEN OneOf(faces, r.position) ELSE Absent, !.result = IF r.op = "find_similar_faces" THEN find_similar_faces(faces, r.reference_face, r.face_distance) ELSE <<>>]

\* An exception of class cls leaves the code of r: get_many_faces catches
\* it at line 125 when it is one of the two classes, nothing else does.
Raised(r, cls) == IF r.op \in ManyOps /\ Caught(cls) THEN ReturnMany([r EXCEPT !.exc = cls], <<>>) ELSE [r EXCEPT !.pc = "done", !.outcome = "raised", !.exc = cls]

\* extract_faces returns `faces` (line 83): to the caller of the thread's
\* call, or to line 116 of get_many_faces.
ReturnExtract(r, faces) == IF r.op = "extract_faces" THEN [r EXCEPT !.pc = "done", !.outcome = "returned", !.faces = faces] ELSE [r EXCEPT !.pc = "gmf_store", !.faces = faces]

\* A call of get_face_analyser() that returns to ra; epoch is the number
\* of detectors that were made before the last reset the call started after.
Enter(r, ra, now) == [r EXCEPT !.pc = "gfa_lock", !.ra = ra, !.epoch = IF ra = "top" THEN now ELSE 0]

\* What is left of a call's locals: a call that has ended keeps its
\* arguments, its result and what it saw, nothing else.
Live(r) == IF r.pc = "done" THEN [Idle EXCEPT !.pc = "done", !.op = r.op, !.frame = r.frame, !.position = r.position, !.analyser = IF r.op = "get_face_analyser" THEN r.analyser ELSE None, !.epoch = IF r.op = "get_face_analyser" THEN r.epoch ELSE 0, !.detections = r.detections, !.faces_cache = r.faces_cache, !.faces = r.faces, !.one = r.one, !.outcome = r.outcome, !.exc = r.exc, !.globals = r.globals, !.reference_face = r.reference_face, !.face_distance = r.face_distance, !.direction = r.direction, !.age = r.age, !.result = r.result] ELSE r

Step(t, r) == th' = [th EXCEPT ![t] = Live(r)]

\* The calls a construction or the detector has failed in.
failures == Cardinality({t \in Threads : th[t].exc \in {"InitializationError", "DetectionError"}})

\* The frames a completed get_many_faces call has run the detector on.
served == {th[t].frame : t \in {u \in Threads : th[u].pc = "done" /\ th[u].op \in ManyOps /\ th[u].outcome = "returned" /\ th[u].detections # Undetected}}

\* ------------------------------------------------------------- the calls
\* Thread t calls get_face_analyser().
StartAnalyser(t) ==
  /\ th[t].pc = "idle"
  /\ Step(t, Enter([Idle EXCEPT !.op = "get_face_analyser"], "top", cleared_at))
  /\ UNCHANGED <<FACE_ANALYSER, THREAD_LOCK, THREAD_SEMAPHORE, FACES_CACHE, input_size, resets, cleared_at>>

\* Thread t calls extract_faces(f), get_many_faces(f) or get_one_face(f).
StartFrame(t, ops) ==
  /\ th[t].pc = "idle"
  /\ \E o \in ops, f \in Frames :
       LET r == [Idle EXCEPT !.op = o, !.frame = f, !.again = f \in served]
       IN Step(t, IF o = "extract_faces" THEN Enter(r, "ef", cleared_at) ELSE [r EXCEPT !.pc = "gmf_lookup"])
  /\ UNCHANGED <<FACE_ANALYSER, THREAD_LOCK, THREAD_SEMAPHORE, FACES_CACHE, input_size, resets, cleared_at>>

\* ------------------------------------------------------ get_face_analyser
\* line 34-35: with THREAD_LOCK: if FACE_ANALYSER is None; when it is not,
\* the with block ends at once.
gfa_lock(t) ==
  /\ th[t].pc = "gfa_lock"
  /\ CanLock(THREAD_LOCK)
  /\ THREAD_LOCK' = IF IsNone(FACE_ANALYSER) THEN t ELSE ExitLock(t, FALSE)
  /\ Step(t, [th[t] EXCEPT !.pc = IF IsNone(FACE_ANALYSER) THEN "gfa_detector" ELSE "gfa_return"])
  /\ UNCHANGED <<FACE_ANALYSER, THREAD_SEMAPHORE, FACES_CACHE, input_size, resets, cleared_at>>

\* line 38: cv2.FaceDetectorYN.create(path, None, (0, 0))
gfa_detector(t) ==
  /\ th[t].pc = "gfa_detector"
  /\ input_size' = Append(input_size, <<0, 0>>)
  /\ Step(t, [th[t] EXCEPT !.pc = "gfa_recognizer", !.local = Handle(created + 1, 0)])
  /\ UNCHANGED <<FACE_ANALYSER, THREAD_LOCK, THREAD_SEMAPHORE, FACES_CACHE, resets, cleared_at>>

\* line 39: onnxruntime.InferenceSession(path, providers = ...)
gfa_recognizer(t) ==
  /\ th[t].pc = "gfa_recognizer"
  /\ Step(t, [th[t] EXCEPT !.pc = "gfa_store", !.local = Handle(th[t].local.face_detector, th[t].local.face_detector)])
  /\ UNCHANGED <<FACE_ANALYSER, THREAD_LOCK, THREAD_SEMAPHORE, FACES_CACHE, input_size, resets, cleared_at>>

\* line 38 or 39 raises: the with block is left, nothing is assigned.
gfa_fails(t) ==
  /\ th[t].pc \in {"gfa_detector", "gfa_recognizer"}
  /\ failures < MaxFailures
  /\ THREAD_LOCK' = ExitLock(THREAD_LOCK, TRUE)
  /\ Step(t, Raised(th[t], "InitializationError"))
  /\ UNCHANGED <<FACE_ANALYSER, THREAD_SEMAPHORE, FACES_CACHE, input_size, resets, cleared_at>>

\* line 36: FACE_ANALYSER = { ... }, and the with block ends
gfa_store(t) ==
  /\ th[t].pc = "gfa_store"
  /\ FACE_ANALYSER' = th[t].local
  /\ THREAD_LOCK' = ExitLock(THREAD_LOCK, FALSE)
  /\ Step(t, [th[t] EXCEPT !.pc = "gfa_return", !.local = None])
  /\ UNCHANGED <<THREAD_SEMAPHORE, FACES_CACHE, input_size, resets, cleared_at>>

\* line 41: return FACE_ANALYSER, read after the lock is released
gfa_return(t) ==
  /\ th[t].pc = "gfa_return"
  /\ LET r == [th[t] EXCEPT !.analyser = FACE_ANALYSER]
     IN Step(t, CASE r.ra = "top" -> [r EXCEPT !.pc = "done", !.outcome = "returned"]
                  [] r.ra = "ef" -> [r EXCEPT !.pc = "ef_configure"]
                  [] r.ra = "ce" -> [r EXCEPT !.pc = "ce_run"])
  /\ UNCHANGED <<FACE_ANALYSER, THREAD_LOCK, THREAD_SEMAPHORE, FACES_CACHE, input_size, resets, cleared_at>>

\* line 47: FACE_ANALYSER = None, without the lock; any thread of the
\* application may make the call.
clear_face_analyser ==
  /\ resets < MaxResets
  /\ resets' = resets + 1
  /\ FACE_ANALYSER' = None
  /\ cleared_at' = created
  /\ UNCHANGED <<THREAD_LOCK, THREAD_SEMAPHORE, FACES_CACHE, input_size, th>>

Analyser(t) ==
  \/ gfa_lock(t)
  \/ gfa_detector(t)
  \/ gfa_recognizer(t)
  \/ gfa_fails(t)
  \/ gfa_store(t)
  \/ gfa_return(t)

NextAnalyser == clear_face_analyser \/ \E t \in Threads : StartAnalyser(t) \/ Analyser(t)

SpecAnalyser == Init /\ [][NextAnalyser]_vars

\* ---------------------------------------------------------- extract_faces
\* line 59-64: get_face_analyser().get('face_detector'), height, width, _ =
\* frame.shape, and face_detector.setInputSize((width, height)), all
\* outside the gate
ef_configure(t) ==
  /\ th[t].pc = "ef_configure"
  /\ LET ok == ~IsNone(th[t].analyser) /\ UnpacksShape(th[t].frame)
         d == th[t].analyser.face_detector
     IN /\ input_size' = IF ok THEN [input_size EXCEPT ![d] = <<Shape(th[t].frame)[2], Shape(th[t].frame)[1]>>] ELSE input_size
        /\ Step(t, IF IsNone(th[t].analyser) THEN Raised(th[t], "AttributeError")
                   ELSE IF ~UnpacksShape(th[t].frame) THEN Raised(th[t], "ValueError")
                   ELSE [th[t] EXCEPT !.pc = "ef_acquire", !.face_detector = d, !.analyser = None, !.epoch = 0])
  /\ UNCHANGED <<FACE_ANALYSER, THREAD_LOCK, THREAD_SEMAPHORE, FACES_CACHE, resets, cleared_at>>

\* line 65: with THREAD_SEMAPHORE
ef_acquire(t) ==
  /\ th[t].pc = "ef_acquire"
  /\ CanAcquire(THREAD_SEMAPHORE)
  /\ THREAD_SEMAPHORE' = THREAD_SEMAPHORE - 1
  /\ Step(t, [th[t] EXCEPT !.pc = "ef_detect"])
  /\ UNCHANGED <<FACE_ANALYSER, THREAD_LOCK, FACES_CACHE, input_size, resets, cleared_at>>

\* line 66-72: _, detections = face_detector.detect(frame) returns and the
\* with block ends; if detections.any(), the first create_embedding
ef_detect(t) ==
  /\ th[t].pc = "ef_detect"
  /\ THREAD_SEMAPHORE' = ExitSemaphore(THREAD_SEMAPHORE, FALSE)
  /\ \E rep \in NoDetections :
       LET r == [th[t] EXCEPT !.detections = Detect(th[t].frame, rep)]
       IN Step(t, IF r.detections.isNone THEN Raised(r, "AttributeError")
                  ELSE IF r.detections.rows = <<>> THEN ReturnExtract(r, <<>>)
                  ELSE Enter([r EXCEPT !.k = 1], "ce", cleared_at))
  /\ UNCHANGED <<FACE_ANALYSER, THREAD_LOCK, FACES_CACHE, input_size, resets, cleared_at>>

\* line 66 raises (a backend error of the detector): the with block is left
ef_detect_fails(t) ==
  /\ th[t].pc = "ef_detect"
  /\ failures < MaxFailures
  /\ THREAD_SEMAPHORE' = ExitSemaphore(THREAD_SEMAPHORE, TRUE)
  /\ Step(t, Raised(th[t], "DetectionError"))
  /\ UNCHANGED <<FACE_ANALYSER, THREAD_LOCK, FACES_CACHE, input_size, resets, cleared_at>>

\* create_embedding, line 87-97, and line 73-82: .get('face_recognition'),
\* face_recognition.run, the Face is appended; then the next detection,
\* or line 83
ce_run(t) ==
  /\ th[t].pc = "ce_run"
  /\ LET r == [th[t] EXCEPT !.face_recognition = th[t].analyser.face_recognition, !.analyser = None, !.epoch = 0, !.faces = Append(th[t].faces, Face(th[t].frame, th[t].detections.rows[th[t].k]))]
     IN Step(t, IF IsNone(th[t].analyser) THEN Raised(th[t], "AttributeError")
                ELSE IF r.k < Len(r.detections.rows) THEN Enter([r EXCEPT !.k = r.k + 1], "ce", cleared_at)
                ELSE ReturnExtract(r, r.faces))
  /\ UNCHANGED <<FACE_ANALYSER, THREAD_LOCK, THREAD_SEMAPHORE, FACES_CACHE, input_size, resets, cleared_at>>

\* --------------------------------------------------------- get_many_faces
\* line 112-116: faces_cache = get_faces_cache(frame); if faces_cache, the
\* cached list is selected from and returned, else extract_faces is called
gmf_lookup(t) ==
  /\ th[t].pc = "gmf_lookup"
  /\ LET r == [th[t] EXCEPT !.faces_cache = get_faces_cache(FACES_CACHE, th[t].frame)]
     IN Step(t, IF Truthy(r.faces_cache) THEN ReturnMany(r, Selected(r.faces_cache.val, r.globals)) ELSE Enter(r, "ef", cleared_at))
  /\ UNCHANGED <<FACE_ANALYSER, THREAD_LOCK, THREAD_SEMAPHORE, FACES_CACHE, input_size, resets, cleared_at>>

\* line 117-124: set_faces_cache(frame, faces), then the selection
gmf_store(t) ==
  /\ th[t].pc = "gmf_store"
  /\ FACES_CACHE' = Stored(FACES_CACHE, th[t].frame, th[t].faces)
  /\ Step(t, ReturnMany(th[t], Selected(th[t].faces, th[t].globals)))
  /\ UNCHANGED <<FACE_ANALYSER, THREAD_LOCK, THREAD_SEMAPHORE, input_size, resets, cleared_at>>

Extract(t) ==
  \/ ef_configure(t)
  \/ ef_acquire(t)
  \/ ef_detect(t)
  \/ ef_detect_fails(t)
  \/ ce_run(t)

Many(t) ==
  \/ gmf_lookup(t)
  \/ gmf_store(t)

\* Threads call get_many_faces.
Next == clear_face_analyser \/ \E t \in Threads : StartFrame(t, {"get_many_faces"}) \/ Analyser(t) \/ Extract(t) \/ Many(t)

Spec == Init /\ [][Next]_vars

\* Threads call extract_faces, get_many_faces and get_one_face.
NextFaces == clear_face_analyser \/ \E t \in Threads : StartFrame(t, FrameOps) \/ Analyser(t) \/ Extract(t) \/ Many(t)

SpecFaces == Init /\ [][NextFaces]_vars

\* Frames of different dimensions.
SizedFrames == {"solo", "pair"}

\* Thread t calls extract_faces(f).
StartExtract(t) ==
  /\ th[t].pc = "idle"
  /\ \E f \in SizedFrames : Step(t, Enter([Idle EXCEPT !.op = "extract_faces", !.frame = f], "ef", cleared_at))
  /\ UNCHANGED <<FACE_ANALYSER, THREAD_LOCK, THREAD_SEMAPHORE, FACES_CACHE, input_size, resets, cleared_at>>

\* Threads call extract_faces; clear_face_analyser may run at any time.
NextExtract == clear_face_analyser \/ \E t \in Threads : StartExtract(t) \/ Analyser(t) \/ Extract(t)

SpecExtract == Init /\ [][NextExtract]_vars

\* ------------------------------------------------------- fair scheduling
\* Thread t calls get_many_faces(f) on a frame that shows a face; the call
\* makes the calls of extract_faces, create_embedding and get_face_analyser.
StartFace(t) ==
  /\ th[t].pc = "idle"
  /\ Step(t, [Idle EXCEPT !.op = "get_many_faces", !.frame = "solo", !.again = "solo" \in served, !.pc = "gmf_lookup"])
  /\ UNCHANGED <<FACE_ANALYSER, THREAD_LOCK, THREAD_SEMAPHORE, FACES_CACHE, input_size, resets, cleared_at>>

\* The steps of thread t inside a call.
Running(t) == Analyser(t) \/ Extract(t) \/ Many(t)

NextFair == clear_face_analyser \/ \E t \in Threads : StartFace(t) \/ Running(t)

\* While some thread can take a step, a thread is scheduled, and every
\* detector and recognizer call returns or raises.  Callers need not call
\* and nobody need reset.
SpecFair == Init /\ [][NextFair]_vars /\ WF_vars(\E t \in Threads : Running(t))

\* ------------------------------------------------- configured selections
\* What a call may find in facefusion.globals: each selector unset or set;
\* "up-down" is no direction sort_by_direction knows.
ConfiguredDirections == {Unset, "left-right", "up-down"}

ConfiguredAges == {Unset, "adult", "senior"}

ConfiguredGenders == {Unset, "male"}

Globals == [face_analyser_direction : ConfiguredDirections, face_analyser_age : ConfiguredAges, face_analyser_gender : ConfiguredGenders]

\* The calls of a sequence are made one after the other, call t when call
\* t - 1 has ended.
IsNext(t) == th[t].pc = "idle" /\ \A u \in Threads : u < t => th[u].pc = "done"

\* Call t of a sequence of get_many_faces(f) calls on one frame;
\* facefusion.globals holds g during the call and may change between calls.
StartQuery(t) ==
  /\ IsNext(t)
  /\ \E g \in Globals :
       Step(t, [Idle EXCEPT !.op = "get_many_faces", !.frame = "pair", !.globals = g, !.again = "pair" \in served, !.pc = "gmf_lookup"])
  /\ UNCHANGED <<FACE_ANALYSER, THREAD_LOCK, THREAD_SEMAPHORE, FACES_CACHE, input_size, resets, cleared_at>>

NextQuery == \E t \in Threads : StartQuery(t) \/ Analyser(t) \/ Extract(t) \/ Many(t)

SpecQuery == Init /\ [][NextQuery]_vars

\* The positions a caller passes: any integer, negative ones too.
Positions == (- MaxPosition) .. MaxPosition

OneFrames == {"blank", "solo", "pair"}

\* Call t of a sequence of get_one_face(f, position) calls.
StartOne(t) ==
  /\ IsNext(t)
  /\ \E f \in OneFrames, position \in Positions :
       Step(t, [Idle EXCEPT !.op = "get_one_face", !.frame = f, !.position = position, !.again = f \in served, !.pc = "gmf_lookup"])
  /\ UNCHANGED <<FACE_ANALYSER, THREAD_LOCK, THREAD_SEMAPHORE, FACES_CACHE, input_size, resets, cleared_at>>

NextOne == \E t \in Threads : StartOne(t) \/ Analyser(t) \/ Extract(t) \/ Many(t)

SpecOne == Init /\ [][NextOne]_vars

\* A reference face whose normed_embedding is v.
Reference(v) == [frame |-> "reference", row |-> 1, bbox |-> <<0, 0, 4, 4>>, normed_embedding |-> v, gender |-> 0, age |-> 0]

\* The references a caller passes: a face, or None.
References == {NoReference, Reference(<<5, 0>>), Reference(<<4, 3>>)}

\* The distances a caller passes, in the fixed point of One: 0.0, 0.4, 0.44
\* and 1.04.
Distances == {0, 10, 11, 26}

\* Call t of a sequence of find_similar_faces(f, reference_face,
\* face_distance) calls.
StartSimilar(t) ==
  /\ IsNext(t)
  /\ \E reference_face \in References, face_distance \in Distances :
       Step(t, [Idle EXCEPT !.op = "find_similar_faces", !.frame = "pair", !.reference_face = reference_face, !.face_distance = face_distance, !.again = "pair" \in served, !.pc = "gmf_lookup"])
  /\ UNCHANGED <<FACE_ANALYSER, THREAD_LOCK, THREAD_SEMAPHORE, FACES_CACHE, input_size, resets, cleared_at>>

NextSimilar == \E t \in Threads : StartSimilar(t) \/ Analyser(t) \/ Extract(t) \/ Many(t)

SpecSimilar == Init /\ [][NextSimilar]_vars

\* ------------------------------------- sort_by_direction and filter_by_age
\* The values of FaceAnalyserDirection and FaceAnalyserAge.
Directions == {"left-right", "right-left", "top-bottom", "bottom-top", "small-large", "large-small"}

Ages == {"child", "teen", "adult", "senior"}

\* A face a caller holds: the i-th of its list, with this bbox and age.
HeldFace(i, bbox, age) == [frame |-> "held", row |-> i, bbox |-> bbox, normed_embedding |-> <<5, 0>>, gender |-> 0, age |-> age]

\* Boxes that agree pairwise in x1, in y1 or in area.
Boxes == {<<0, 0, 2, 2>>, <<0, 1, 4, 3>>, <<1, 0, 3, 2>>, <<2, 1, 3, 5>>}

\* Ages at and next to the bounds of line 160-166.
AgeValues == {0, 12, 13, 18, 19, 59, 60, 61}

ListsOf(S) == UNION {[1 .. n -> S] : n \in 0 .. MaxFaces}

BoxedLists == {[i \in 1 .. Len(boxes) |-> HeldFace(i, boxes[i], 0)] : boxes \in ListsOf(Boxes)}

AgedLists == {[i \in 1 .. Len(ages) |-> HeldFace(i, <<0, 0, 2, 2>>, ages[i])] : ages \in ListsOf(AgeValues)}

\* The calls sort_by_direction(faces, direction) and filter_by_age(faces,
\* age) as they start; "up-down" and "elder" are values the functions do
\* not know.
SortCalls == {[Idle EXCEPT !.pc = "sort_by_direction", !.op = "sort_by_direction", !.faces = faces, !.direction = direction] : faces \in BoxedLists, direction \in Directions \cup {"up-down"}}

AgeCalls == {[Idle EXCEPT !.pc = "filter_by_age", !.op = "filter_by_age", !.faces = faces, !.age = age] : faces \in AgedLists, age \in Ages \cup {"elder"}}

\* One thread has called one of the two functions.
InitSelect ==
  /\ FACE_ANALYSER = None
  /\ THREAD_LOCK = Unlocked
  /\ THREAD_SEMAPHORE = SemaphoreValue
  /\ FACES_CACHE = [f \in AllFrames |-> Absent]
  /\ input_size = <<>>
  /\ resets = 0
  /\ cleared_at = 0
  /\ \E u \in Threads, call \in SortCalls \cup AgeCalls : th = [t \in Threads |-> IF t = u THEN call ELSE Idle]

\* line 142-154
sbd_return(t) ==
  /\ th[t].pc = "sort_by_direction"
  /\ Step(t, [th[t] EXCEPT !.pc = "done", !.outcome = "returned", !.result = sort_by_direction(th[t].faces, th[t].direction)])
  /\ UNCHANGED <<FACE_ANALYSER, THREAD_LOCK, THREAD_SEMAPHORE, FACES_CACHE, input_size, resets, cleared_at>>

\* line 158-168
fba_return(t) ==
  /\ th[t].pc = "filter_by_age"
  /\ Step(t, [th[t] EXCEPT !.pc = "done", !.outcome = "returned", !.result = filter_by_age(th[t].faces, th[t].age)])
  /\ UNCHANGED <<FACE_ANALYSER, THREAD_LOCK, THREAD_SEMAPHORE, FACES_CACHE, input_size, resets, cleared_at>>

NextSelect == \E t \in Threads : sbd_return(t) \/ fba_return(t)

SpecSelect == InitSelect /\ [][NextSelect]_vars

\* ----------------------------------------------------------------- claims
InDetect == {t \in Threads : th[t].pc = "ef_detect"}

ReturnedHandle(t) == th[t].pc = "done" /\ th[t].op = "get_face_analyser" /\ th[t].outcome = "returned"

\* C1: as long as no reset has run, concurrent get_face_analyser() calls
\* construct the detector/recognizer pair once (no second detector is made
\* unless a construction failed) and every call that returns has the one
\* handle that was stored.
C1_ConstructedOnce ==
  resets = 0 =>
    /\ failures = 0 => created <= 1
    /\ \A t \in Threads : ReturnedHandle(t) =>
         /\ ~IsNone(th[t].analyser)
         /\ th[t].analyser = FACE_ANALYSER
         /\ failures = 0 => th[t].analyser = Handle(1, 1)

C1_Witness == resets = 0 /\ failures = 0 /\ \A t \in Threads : ReturnedHandle(t) /\ th[t].analyser = Handle(1, 1)

\* C2: every get_face_analyser() call that returns, returns a constructed
\* pair and never None, whatever clear_face_analyser() does meanwhile.
C2_NeverNone == \A t \in Threads : ReturnedHandle(t) => ~IsNone(th[t].analyser)

\* C3: a get_many_faces call on a frame that an earlier, completed
\* get_many_faces call has run the detector on does not run the detector
\* again.
C3_DetectedOnce == \A t \in Threads : th[t].again => th[t].pc # "ef_detect"

\* C4: the threads inside face_detector.detect are never more than the
\* gate's capacity.
C4_GateCapacity == Cardinality(InDetect) <= SemaphoreValue

C4_Witness == \E t, u \in Threads : th[t].pc = "ef_detect" /\ th[u].pc = "ef_acquire"

\* C5: a construction that fails inside get_face_analyser() raises to the
\* caller, leaves FACE_ANALYSER unset and THREAD_LOCK free; FACE_ANALYSER
\* never holds a partial pair; and a call that finds it unset constructs.
C5_FailedConstruction ==
  [][/\ IsNone(FACE_ANALYSER') \/ (FACE_ANALYSER'.face_detector # 0 /\ FACE_ANALYSER'.face_recognition # 0)
     /\ \A t \in Threads :
          /\ (th[t].pc \in {"gfa_detector", "gfa_recognizer"} /\ th'[t].exc = "InitializationError") =>
               /\ th'[t].pc = "done" /\ th'[t].outcome = "raised"
               /\ IsNone(FACE_ANALYSER')
               /\ THREAD_LOCK' = Unlocked
          /\ (th[t].pc = "gfa_lock" /\ th'[t].pc # "gfa_lock" /\ IsNone(FACE_ANALYSER)) => th'[t].pc = "gfa_detector"]_vars

C5_Witness == \E t, u \in Threads : th[t].exc = "InitializationError" /\ th[t].outcome = "raised" /\ th[u].pc = "gfa_recognizer" /\ THREAD_LOCK = u

\* C6: a get_face_analyser() call that starts after a reset has completed
\* returns a pair that was constructed after that reset.
C6_ResetForcesNew == \A t \in Threads : (ReturnedHandle(t) /\ ~IsNone(th[t].analyser)) => th[t].analyser.face_detector > th[t].epoch

\* C7: a get_many_faces call that missed the cache and got a list from
\* extract_faces has stored that list, an empty one too, when it returns.
C7_StoredOnMiss ==
  \A t \in Threads :
    (th[t].pc = "done" /\ th[t].op \in ManyOps /\ th[t].outcome = "returned" /\ th[t].exc = "none" /\ ~Truthy(th[t].faces_cache)) =>
      /\ FACES_CACHE[th[t].frame].some
      /\ Selected(FACES_CACHE[th[t].frame].val, th[t].globals) = th[t].faces

C7_Witness == \E t \in Threads : th[t].pc = "done" /\ th[t].op = "get_many_faces" /\ th[t].exc = "none" /\ th[t].faces_cache = Absent /\ th[t].faces = <<>> /\ FACES_CACHE[th[t].frame] = [some |-> TRUE, val |-> <<>>]

\* C8: when the detector reports no detections for the frame, extract_faces
\* returns an empty list and raises nothing, get_many_faces returns an empty
\* list and get_one_face returns None.
C8_NoDetections ==
  \A t \in Threads :
    (th[t].pc = "done" /\ th[t].detections # Undetected /\ th[t].detections.rows = <<>>) =>
      /\ th[t].outcome = "returned"
      /\ th[t].faces = <<>>
      /\ th[t].op = "get_one_face" => th[t].one = Absent

\* C9: a detect call that fails raises out of extract_faces and out of
\* get_many_faces, gives its gate slot back and writes nothing to the cache;
\* the gate's counter always equals the capacity less the threads in detect.
C9_FailedDetection ==
  [][/\ THREAD_SEMAPHORE' + Cardinality({t \in Threads : th'[t].pc = "ef_detect"}) = SemaphoreValue
     /\ \A t \in Threads :
          (th[t].pc = "ef_detect" /\ th'[t].exc = "DetectionError") =>
            /\ th'[t].pc = "done" /\ th'[t].outcome = "raised"
            /\ THREAD_SEMAPHORE' = THREAD_SEMAPHORE + 1
            /\ FACES_CACHE' = FACES_CACHE]_vars

C9_Witness == \E t, u \in Threads : th[t].exc = "DetectionError" /\ th[t].outcome = "raised" /\ th[u].pc = "ef_detect" /\ th[u].frame = th[t].frame /\ ~FACES_CACHE[th[t].frame].some

\* C10: an AttributeError or a ValueError raised inside get_many_faces never
\* leaves it: the call returns an empty list.
C10_Swallowed ==
  \A t \in Threads :
    (th[t].op \in ManyOps /\ th[t].exc \in {"AttributeError", "ValueError"}) =>
      th[t].pc = "done" /\ th[t].outcome = "returned" /\ th[t].faces = <<>>

C10_Witness == \E t, u \in Threads : th[t].exc = "AttributeError" /\ th[u].exc = "ValueError" /\ th[t].outcome = "returned" /\ th[u].outcome = "returned"

\* What extract_faces makes of frame f: the detector's rows in their order.
Raw(f) == [i \in 1 .. NumFaces(f) |-> Face(f, i)]

\* C11: a get_many_faces call that returns a list it detected or found in
\* the cache returns the frame's raw detections with the direction sort,
\* then the age filter, then the gender filter applied, each if it was
\* configured at that call; and a cache entry is always the raw detections,
\* not sorted and not filtered.
C11_SelectionOrder ==
  /\ \A t \in Threads :
       (th[t].pc = "done" /\ th[t].op = "get_many_faces" /\ th[t].outcome = "returned" /\ th[t].exc = "none") =>
         LET g == th[t].globals
             byDirection == IF g.face_analyser_direction = Unset THEN Raw(th[t].frame) ELSE sort_by_direction(Raw(th[t].frame), g.face_analyser_direction)
             byAge == IF g.face_analyser_age = Unset THEN byDirection ELSE filter_by_age(byDirection, g.face_analyser_age)
             byGender == IF g.face_analyser_gender = Unset THEN byAge ELSE filter_by_gender(byAge, g.face_analyser_gender)
         IN th[t].faces = byGender
  /\ \A f \in AllFrames : FACES_CACHE[f].some => FACES_CACHE[f].val = Raw(f)

C11_Witness ==
  \E t, u \in Threads :
    /\ th[t].pc = "done" /\ th[t].frame = "pair" /\ th[t].globals.face_analyser_direction = "left-right"
    /\ th[t].faces = <<Face("pair", 2), Face("pair", 1)>>
    /\ th[u].pc = "done" /\ th[u].frame = "pair" /\ Truthy(th[u].faces_cache) /\ th[u].globals = Unconfigured
    /\ th[u].faces = Raw("pair")
    /\ FACES_CACHE["pair"].val = Raw("pair")

\* C12: get_one_face(frame, position) returns, of the list get_many_faces
\* gave it, the element at index position when position is in range (a
\* negative one counting from the end), the last element when position is
\* out of range, and None when the list is empty; no IndexError leaves it.
C12_OneFace ==
  \A t \in Threads :
    (th[t].pc = "done" /\ th[t].op = "get_one_face") =>
      LET n == Len(th[t].faces)
          position == th[t].position
      IN /\ th[t].outcome = "raised" => th[t].exc \in {"InitializationError", "DetectionError"}
         /\ th[t].outcome = "returned" =>
              /\ n = 0 => th[t].one = Absent
              /\ (n > 0 /\ 0 <= position /\ position < n) => th[t].one = [some |-> TRUE, val |-> <<th[t].faces[position + 1]>>]
              /\ (n > 0 /\ - n <= position /\ position < 0) => th[t].one = [some |-> TRUE, val |-> <<th[t].faces[n + position + 1]>>]
              /\ (n > 0 /\ (position >= n \/ position < - n)) => th[t].one = [some |-> TRUE, val |-> <<th[t].faces[n]>>]

C12_Witness ==
  \E t, u \in Threads :
    /\ th[t].pc = "done" /\ th[t].op = "get_one_face" /\ th[t].frame = "pair" /\ th[t].position = 2
    /\ th[t].one = [some |-> TRUE, val |-> <<Face("pair", 2)>>]
    /\ th[u].pc = "done" /\ th[u].op = "get_one_face" /\ th[u].frame = "pair" /\ th[u].position = 0
    /\ th[u].one = [some |-> TRUE, val |-> <<Face("pair", 1)>>]

Ended(t, op) == th[t].pc = "done" /\ th[t].op = op /\ th[t].outcome = "returned"

\* C13: find_similar_faces(frame, reference, d) returns exactly the faces
\* of the list get_many_faces gave it whose distance 1 - dot to the
\* reference is strictly less than d, in that list's order; a face at
\* distance d is left out, and a call with a larger d returns every face a
\* call with a smaller d returned.
C13_SimilarFaces ==
  /\ \A t \in Threads :
       (Ended(t, "find_similar_faces") /\ th[t].reference_face # NoReference) =>
         LET faces == th[t].faces
             result == th[t].result
             reference == th[t].reference_face.normed_embedding
             distance(face) == One - (face.normed_embedding[1] * reference[1] + face.normed_embedding[2] * reference[2])
         IN /\ \A i \in 1 .. Len(faces) : (\E j \in 1 .. Len(result) : result[j] = faces[i]) <=> distance(faces[i]) < th[t].face_distance
            /\ \A j, k \in 1 .. Len(result) : j < k => \E a, b \in 1 .. Len(faces) : a < b /\ faces[a] = result[j] /\ faces[b] = result[k]
            /\ \A j \in 1 .. Len(result) : distance(result[j]) # th[t].face_distance
  /\ \A t, u \in Threads :
       (/\ Ended(t, "find_similar_faces") /\ Ended(u, "find_similar_faces")
        /\ th[t].faces = th[u].faces /\ th[t].reference_face = th[u].reference_face
        /\ th[t].face_distance <= th[u].face_distance) =>
         \A j \in 1 .. Len(th[t].result) : \E k \in 1 .. Len(th[u].result) : th[u].result[k] = th[t].result[j]

C13_Witness ==
  \E t, u \in Threads :
    /\ Ended(t, "find_similar_faces") /\ th[t].reference_face = Reference(<<5, 0>>) /\ th[t].face_distance = 10
    /\ th[t].faces = Raw("pair") /\ th[t].result = <<>>
    /\ Ended(u, "find_similar_faces") /\ th[u].reference_face = Reference(<<5, 0>>) /\ th[u].face_distance = 26
    /\ th[u].faces = Raw("pair") /\ th[u].result = Raw("pair")

Reverse(seq) == [i \in 1 .. Len(seq) |-> seq[Len(seq) + 1 - i]]

\* C14: for each of the six directions sort_by_direction returns a
\* permutation of its input ordered by the direction's key (x1, y1 or box
\* area; ascending or descending) in which faces of equal key keep their
\* input order; 'right-left' applied to the result of 'left-right' reverses
\* it when the x1 are distinct; any other direction returns the input.
C14_StableSort ==
  \A t \in Threads :
    Ended(t, "sort_by_direction") =>
      LET faces == th[t].faces
          result == th[t].result
          direction == th[t].direction
          key(face) == IF direction \in {"left-right", "right-left"} THEN face.bbox[1]
                       ELSE IF direction \in {"top-bottom", "bottom-top"} THEN face.bbox[2]
                       ELSE (face.bbox[3] - face.bbox[1]) * (face.bbox[4] - face.bbox[2])
          descending == direction \in {"right-left", "bottom-top", "large-small"}
      IN IF direction \in Directions
         THEN /\ Len(result) = Len(faces)
              /\ {result[p].row : p \in 1 .. Len(result)} = 1 .. Len(faces)
              /\ \A p \in 1 .. Len(result) : result[p] = faces[result[p].row]
              /\ \A p, q \in 1 .. Len(result) : p < q =>
                   /\ IF descending THEN key(result[p]) >= key(result[q]) ELSE key(result[p]) <= key(result[q])
                   /\ key(result[p]) = key(result[q]) => result[p].row < result[q].row
              /\ (direction = "left-right" /\ \A p, q \in 1 .. Len(faces) : p # q => faces[p].bbox[1] # faces[q].bbox[1]) =>
                   sort_by_direction(result, "right-left") = Reverse(result)
         ELSE result = faces

C14_Witness ==
  \E t \in Threads :
    /\ Ended(t, "sort_by_direction") /\ th[t].direction = "right-left" /\ Len(th[t].faces) = 3
    /\ th[t].faces[1].bbox = <<0, 0, 2, 2>> /\ th[t].faces[2].bbox = <<0, 1, 4, 3>> /\ th[t].faces[3].bbox = <<2, 1, 3, 5>>
    /\ th[t].result = <<th[t].faces[3], th[t].faces[1], th[t].faces[2]>>

\* C15: the age classes are mutually exclusive: a face that filter_by_age
\* keeps for one of child, teen, adult and senior is kept for no other.
C15_ExclusiveClasses ==
  \A t \in Threads :
    (Ended(t, "filter_by_age") /\ th[t].age \in Ages) =>
      \A j \in 1 .. Len(th[t].result) : \A other \in Ages \ {th[t].age} : filter_by_age(<<th[t].result[j]>>, other) = <<>>

\* C16 as the claim states it: a face of age 59 is dropped by 'adult' and
\* by 'senior', and a face of age 60 is kept by 'senior'.
C16_GapAt59 ==
  \A t \in Threads :
    Ended(t, "filter_by_age") =>
      \A i \in 1 .. Len(th[t].faces) :
        LET face == th[t].faces[i]
            kept == \E j \in 1 .. Len(th[t].result) : th[t].result[j] = face
        IN /\ (face.age = 59 /\ th[t].age \in {"adult", "senior"}) => ~kept
           /\ (face.age = 60 /\ th[t].age = "senior") => kept

\* C16 amended: a face of age 59 is kept by 'adult' and dropped by
\* 'senior', and a face of age 60 is kept by 'senior'.
C16_AdultAt59 ==
  \A t \in Threads :
    Ended(t, "filter_by_age") =>
      \A i \in 1 .. Len(th[t].faces) :
        LET face == th[t].faces[i]
            kept == \E j \in 1 .. Len(th[t].result) : th[t].result[j] = face
        IN /\ (face.age = 59 /\ th[t].age = "adult") => kept
           /\ (face.age = 59 /\ th[t].age = "senior") => ~kept
           /\ (face.age = 60 /\ th[t].age = "senior") => kept

C16_Witness ==
  \E t \in Threads :
    /\ Ended(t, "filter_by_age") /\ th[t].age = "adult" /\ Len(th[t].faces) = 2
    /\ th[t].faces[1].age = 60 /\ th[t].faces[2].age = 59
    /\ th[t].result = <<th[t].faces[2]>>

\* C17: a thread that runs face_detector.detect or face_recognition.run
\* does not hold THREAD_LOCK, and every gate slot that is taken is held by
\* a thread inside detect, so a thread that runs the recognizer holds none:
\* an embedding can run while another thread detects or embeds.
C17_InferenceUnlocked ==
  /\ \A t \in Threads : th[t].pc \in {"ef_detect", "ce_run"} => THREAD_LOCK # t
  /\ SemaphoreValue - THREAD_SEMAPHORE = Cardinality(InDetect)

C17_Witness == \E t, u \in Threads : th[t].pc = "ce_run" /\ th[u].pc = "ef_detect" /\ THREAD_LOCK = Unlocked

\* Two threads run the recognizer at once.
C17_BothEmbed == \E t, u \in Threads : t # u /\ th[t].pc = "ce_run" /\ th[u].pc = "ce_run"

\* The (width, height) of frame f.
Size(f) == <<Shape(f)[2], Shape(f)[1]>>

\* C18: whenever a thread is inside face_detector.detect(frame), the input
\* size its detector is configured with is the width and height of that
\* frame, whatever other extract_faces calls do meanwhile.
C18_InputSizeAtDetect == \A t \in Threads : th[t].pc = "ef_detect" => input_size[th[t].face_detector] = Size(th[t].frame)

\* C19: within one extract_faces call the recognizer used for an embedding
\* and the detector used for the detection come from the same constructed
\* handle, whatever clear_face_analyser() and reconstruction do meanwhile.
C19_SameHandle == \A t \in Threads : th[t].face_recognition # 0 => th[t].face_recognition = th[t].face_detector

\* C20: under fair scheduling every call that has started ends (each
\* thread makes one call, so in the end every thread has ended its call or
\* has made none); no thread holds THREAD_LOCK while it waits for or is
\* inside the gate, a call that has ended, by a return or by an exception,
\* holds neither, and when no call runs the lock is free and the gate has
\* all its slots.
C20_Completes ==
  /\ [](\A t \in Threads : ~(THREAD_LOCK = t /\ th[t].pc \in {"ef_acquire", "ef_detect"}))
  /\ [](\A t \in Threads : th[t].pc = "done" => THREAD_LOCK # t)
  /\ []((\A t \in Threads : th[t].pc \in {"idle", "done"}) => (THREAD_LOCK = Unlocked /\ THREAD_SEMAPHORE = SemaphoreValue))
  /\ <>[](\A t \in Threads : th[t].pc \in {"idle", "done"})

C20_Witness ==
  \E t, u \in Threads :
    /\ th[t].pc = "done" /\ th[t].outcome = "raised" /\ th[t].exc = "DetectionError"
    /\ th[u].pc = "done" /\ th[u].outcome = "returned" /\ th[u].faces = Raw("solo")
    /\ THREAD_LOCK = Unlocked /\ THREAD_SEMAPHORE = SemaphoreValue

====
